---- MODULE Spec2Model ----
(***************************************************************************)
(* The personal-gallery store of the Art Institute Explorer                *)
(* (src/src/utils/galleryStorage.ts) with the schemas it validates with    *)
(* (src/src/schemas/noteSchema.ts), as a state machine over the value      *)
(* kept in localStorage under the key aic_gallery.                         *)
(*                                                                         *)
(* JavaScript values are records [t, s, n] (undefined, null, string,      *)
(* number) or [t |-> "object", o |-> f] with f a function from the keys    *)
(* the object has to their values.  The persisted text is modelled by the  *)
(* JSON document it holds: JSON.stringify drops the keys whose value is    *)
(* undefined, JSON.parse gives back objects that have only the keys that   *)
(* were written.                                                           *)
(***************************************************************************)
EXTENDS Integers, Sequences, FiniteSets, TLC

VARIABLES storage, last, checked, added, tabs, editor, search

vars == <<storage, last, checked, added, tabs, editor, search>>

----------------------------------------------------------------------------
(* Bounds of the model and constants of the program *)

NumIds == 2

MaxNoteLen == 500

Ids == 1 .. NumIds

----------------------------------------------------------------------------
(* JavaScript / JSON values *)

Undefined == [t |-> "undefined", s |-> "", n |-> 0]

Null == [t |-> "null", s |-> "", n |-> 0]

Str(x) == [t |-> "string", s |-> x, n |-> 0]

Num(k) == [t |-> "number", s |-> "", n |-> k]

\* a number that is no integer: k and the decimal digits d behind the point
Frac(k, d) == [t |-> "number", s |-> d, n |-> k]

Obj(f) == [t |-> "object", o |-> f]

\* o.k : reading a key the object does not have yields undefined
Get(o, k) == IF k \in DOMAIN o THEN o[k] ELSE Undefined

RECURSIVE Repeat(_, _)
Repeat(s, n) ==
  IF n = 0 THEN ""
  ELSE IF n % 2 = 0 THEN Repeat(s \o s, n \div 2)
  ELSE s \o Repeat(s \o s, n \div 2)

----------------------------------------------------------------------------
(* SavedArtworkSchema *)

RequiredNullable == {"artist_title", "image_id"}

OptionalFields == {"date_display", "medium_display", "place_of_origin", "dimensions"}

SavedFields == {"id", "title", "note"} \cup RequiredNullable \cup OptionalFields

\* z.object({...}).parse(v) succeeds
SavedArtworkValid(v) ==
  /\ v.t = "object"
  /\ Get(v.o, "id").t = "number"
  /\ Get(v.o, "title").t = "string"
  /\ \A k \in RequiredNullable : Get(v.o, k).t \in {"string", "null"}
  /\ \A k \in OptionalFields : Get(v.o, k).t \in {"string", "null", "undefined"}
  /\ Get(v.o, "note").t \in {"string", "undefined"}

\* mutant of SavedArtworkParsed: a null value is returned as an absent key
SavedArtworkParsedDropsNull(v) ==
  [k \in SavedFields |->
     IF k = "note" /\ Get(v.o, k).t = "undefined" THEN Str("")
     ELSE IF Get(v.o, k).t = "null" THEN Undefined ELSE Get(v.o, k)]

\* the record parse returns: the schema's keys only, note defaulted to ""
SavedArtworkParsed(v) ==
  [k \in SavedFields |->
     IF k = "note" /\ Get(v.o, k).t = "undefined" THEN Str("") ELSE Get(v.o, k)]

----------------------------------------------------------------------------
(* NoteSchema *)

NoteSchemaMax == 500

\* mutant of NoteSchemaValid: the note is a string of any length
NoteSchemaNoMax(v) ==
  /\ v.t = "object"
  /\ Get(v.o, "artworkId").t = "number"
  /\ Get(v.o, "note").t \in {"string", "undefined"}

\* NoteSchema.parse(v) succeeds
NoteSchemaValid(v) ==
  /\ v.t = "object"
  /\ Get(v.o, "artworkId").t = "number"
  /\ \/ Get(v.o, "note").t = "undefined"
     \/ Get(v.o, "note").t = "string" /\ Len(Get(v.o, "note").s) <= NoteSchemaMax

----------------------------------------------------------------------------
(* ArtworkSchema *)

ArtworkFields == {"id", "title"} \cup RequiredNullable \cup OptionalFields

\* ArtworkSchema.parse(v) succeeds: a default stands in for undefined only
ArtworkValid(v) ==
  /\ v.t = "object"
  /\ Get(v.o, "id").t = "number"
  /\ Get(v.o, "title").t \in {"string", "undefined"}
  /\ Get(v.o, "artist_title").t \in {"string", "null", "undefined"}
  /\ Get(v.o, "image_id").t \in {"string", "null", "undefined"}
  /\ \A k \in OptionalFields : Get(v.o, k).t \in {"string", "null", "undefined"}

ArtworkDefault(k) ==
  IF k = "title" THEN Str("Unbekannter Titel")
  ELSE IF k = "artist_title" THEN Str("Unbekannter Künstler")
  ELSE IF k = "image_id" THEN Null
  ELSE Undefined

\* the record parse returns: the schema's keys, defaults in place of undefined
ArtworkParsed(v) ==
  [k \in ArtworkFields |->
     IF Get(v.o, k).t = "undefined" THEN ArtworkDefault(k) ELSE Get(v.o, k)]

\* a value of type Artwork (z.infer of ArtworkSchema): what the schema's parse
\* returns, with title, artist_title and image_id filled in
IsArtwork(a) ==
  /\ Get(a, "id").t = "number"
  /\ Get(a, "title").t = "string"
  /\ Get(a, "artist_title").t \in {"string", "null"}
  /\ Get(a, "image_id").t \in {"string", "null"}
  /\ \A k \in OptionalFields : Get(a, k).t \in {"string", "null", "undefined"}

----------------------------------------------------------------------------
(* The persisted value and the storage primitives *)

\* what localStorage holds under aic_gallery: nothing, or a text that is
\* empty, not JSON, JSON but no array, or a JSON array of elems
Raw(kind, elems) == [kind |-> kind, elems |-> elems]

Absent == Raw("absent", <<>>)

\* how the storage primitives behave during one call: "ok"; "quota": setItem
\* throws (capacity exceeded); "disabled": every access to the storage throws
Modes == {"ok", "quota", "disabled"}

\* the modes that differ for a call that never calls setItem
ReadModes == {"ok", "disabled"}

getItemThrows(mode) == mode = "disabled"

setItemThrows(mode) == mode # "ok"

removeItemThrows(mode) == mode = "disabled"

\* mutant of stringifyRecord: keys whose value is null are not written either
stringifyRecordDropsNull(r) ==
  Obj([k \in {f \in DOMAIN r : r[f].t \notin {"undefined", "null"}} |-> r[k]])

\* JSON.stringify(gallery): keys whose value is undefined are not written
stringifyRecord(r) ==
  Obj([k \in {f \in DOMAIN r : r[f].t # "undefined"} |-> r[k]])

JSONstringify(gallery) ==
  Raw("array", [i \in 1 .. Len(gallery) |-> stringifyRecord(gallery[i])])

----------------------------------------------------------------------------
(* loadGallery *)

RECURSIVE validatedUntilInvalid(_)
\* mutant of validated: the first element that fails ends the collection
validatedUntilInvalid(elems) ==
  IF elems = <<>> THEN <<>>
  ELSE IF SavedArtworkValid(Head(elems))
       THEN <<SavedArtworkParsed(Head(elems))>> \o validatedUntilInvalid(Tail(elems))
       ELSE <<>>

RECURSIVE validatedLenient(_)
\* mutant of validated: every object with a numeric id is kept
validatedLenient(elems) ==
  IF elems = <<>> THEN <<>>
  ELSE IF Head(elems).t = "object" /\ Get(Head(elems).o, "id").t = "number"
       THEN <<SavedArtworkParsed(Head(elems))>> \o validatedLenient(Tail(elems))
       ELSE validatedLenient(Tail(elems))

RECURSIVE validated(_)
\* parsedData.map(parse or null).filter(not null)
validated(elems) ==
  IF elems = <<>> THEN <<>>
  ELSE IF SavedArtworkValid(Head(elems))
       THEN <<SavedArtworkParsed(Head(elems))>> \o validated(Tail(elems))
       ELSE validated(Tail(elems))

\* mutant of loadGallery: a JSON value that is no array is taken as one record
loadGalleryWrapsObject(raw, mode) ==
  IF getItemThrows(mode) THEN <<>>
  ELSE IF raw.kind \in {"absent", "empty"} THEN <<>>
  ELSE IF raw.kind = "garbage" THEN <<>>
  ELSE validated(raw.elems)

loadGallery(raw, mode) ==
  IF getItemThrows(mode) THEN <<>>
  ELSE IF raw.kind \in {"absent", "empty"} THEN <<>>
  ELSE IF raw.kind = "garbage" THEN <<>>
  ELSE IF raw.kind # "array" THEN <<>>
  ELSE validated(raw.elems)

----------------------------------------------------------------------------
(* The outcome of one call of a store operation *)

Outcome(result, raw, reads, writes) ==
  [result |-> result, storage |-> raw, reads |-> reads, writes |-> writes]

\* mutant of saveGallery: reports success without writing
saveGalleryNoWrite(raw, gallery, mode) == Outcome("true", raw, 1, 0)

\* mutant of saveGallery: a failed write is logged and swallowed
saveGallerySwallows(raw, gallery, mode) ==
  IF setItemThrows(mode) THEN Outcome("true", raw, 1, 1)
  ELSE Outcome("true", JSONstringify(gallery), 1, 1)

\* saveGallery(gallery) as the last step of a call that has read once
saveGallery(raw, gallery, mode) ==
  IF setItemThrows(mode) THEN Outcome("raised", raw, 1, 1)
  ELSE Outcome("true", JSONstringify(gallery), 1, 1)

----------------------------------------------------------------------------
(* addToGallery *)

\* mutant of exists: looks at the first record only
existsFirst(gallery, id) == gallery # <<>> /\ gallery[1]["id"] = id

\* mutant of exists: compares the wrong field with the id
existsByTitle(gallery, id) ==
  \E i \in 1 .. Len(gallery) : gallery[i]["title"] = id

\* gallery.some((item) => item.id === artwork.id)
exists(gallery, id) ==
  \E i \in 1 .. Len(gallery) : gallery[i]["id"] = id

\* mutant of savedArtworkOf: copies the artwork's own note
savedArtworkKeepsNote(artwork) ==
  [k \in SavedFields |-> Get(artwork, k)]

savedArtworkOf(artwork) ==
  [k \in SavedFields |-> IF k = "note" THEN Str("") ELSE Get(artwork, k)]

\* mutant of addToGallery: saves the collection again on a duplicate
addToGallerySavesDuplicate(raw, artwork, mode) ==
  LET gallery == loadGallery(raw, mode)
      savedArtwork == Obj(savedArtworkOf(artwork))
  IN IF exists(gallery, Get(artwork, "id"))
     THEN [saveGallery(raw, gallery, mode) EXCEPT !.result = "false"]
     ELSE IF ~SavedArtworkValid(savedArtwork) THEN Outcome("raised", raw, 1, 0)
     ELSE saveGallery(raw, Append(gallery, SavedArtworkParsed(savedArtwork)), mode)

\* mutant of addToGallery: the collection is saved before the record is validated
addToGallerySavesFirst(raw, artwork, mode) ==
  LET gallery == loadGallery(raw, mode)
      savedArtwork == Obj(savedArtworkOf(artwork))
      saved == saveGallery(raw, Append(gallery, SavedArtworkParsed(savedArtwork)), mode)
  IN IF exists(gallery, Get(artwork, "id")) THEN Outcome("false", raw, 1, 0)
     ELSE IF ~SavedArtworkValid(savedArtwork) THEN [saved EXCEPT !.result = "raised"]
     ELSE saved

\* mutant of addToGallery: the new record is put in front (unshift)
addToGalleryPrepends(raw, artwork, mode) ==
  LET gallery == loadGallery(raw, mode)
      savedArtwork == Obj(savedArtworkOf(artwork))
  IN IF exists(gallery, Get(artwork, "id")) THEN Outcome("false", raw, 1, 0)
     ELSE IF ~SavedArtworkValid(savedArtwork) THEN Outcome("raised", raw, 1, 0)
     ELSE saveGallery(raw, <<SavedArtworkParsed(savedArtwork)>> \o gallery, mode)

addToGallery(raw, artwork, mode) ==
  LET gallery == loadGallery(raw, mode)
      savedArtwork == Obj(savedArtworkOf(artwork))
  IN IF exists(gallery, Get(artwork, "id")) THEN Outcome("false", raw, 1, 0)
     ELSE IF ~SavedArtworkValid(savedArtwork) THEN Outcome("raised", raw, 1, 0)
     ELSE saveGallery(raw, Append(gallery, SavedArtworkParsed(savedArtwork)), mode)

----------------------------------------------------------------------------
(* updateNote *)

\* mutant of noteTooLong: off by one
noteTooLongOffByOne(note) == Len(note) >= MaxNoteLen

noteTooLong(note) == Len(note) > MaxNoteLen

\* gallery.findIndex((item) => item.id === artworkId); 0 stands for -1
findIndex(gallery, id) ==
  IF exists(gallery, id)
  THEN CHOOSE i \in 1 .. Len(gallery) :
         /\ gallery[i]["id"] = id
         /\ \A j \in 1 .. (i - 1) : gallery[j]["id"] # id
  ELSE 0

\* mutant of withNote: appends to the note instead of replacing it
withNoteAppended(item, note) ==
  [item EXCEPT !["note"] = Str(item["note"].s \o note)]

withNote(item, note) == [item EXCEPT !["note"] = Str(note)]

\* mutant of updateNote: checks the length after loading the gallery
updateNoteChecksLate(raw, artworkId, note, mode) ==
  LET gallery == loadGallery(raw, mode)
      artworkIndex == findIndex(gallery, artworkId)
  IN IF noteTooLong(note) THEN Outcome("raised", raw, 1, 0)
     ELSE IF artworkIndex = 0 THEN Outcome("false", raw, 1, 0)
     ELSE saveGallery(raw,
            [gallery EXCEPT ![artworkIndex] = withNote(gallery[artworkIndex], note)],
            mode)

\* mutant of updateNote: sets the note of every record
updateNoteEveryRecord(raw, artworkId, note, mode) ==
  IF noteTooLong(note) THEN Outcome("raised", raw, 0, 0)
  ELSE LET gallery == loadGallery(raw, mode)
       IN IF findIndex(gallery, artworkId) = 0 THEN Outcome("false", raw, 1, 0)
          ELSE saveGallery(raw,
                 [i \in 1 .. Len(gallery) |-> withNote(gallery[i], note)], mode)

updateNote(raw, artworkId, note, mode) ==
  IF noteTooLong(note) THEN Outcome("raised", raw, 0, 0)
  ELSE LET gallery == loadGallery(raw, mode)
           artworkIndex == findIndex(gallery, artworkId)
       IN IF artworkIndex = 0 THEN Outcome("false", raw, 1, 0)
          ELSE LET updated == Obj(withNote(gallery[artworkIndex], note))
               IN IF ~SavedArtworkValid(updated) THEN Outcome("raised", raw, 1, 0)
                  ELSE saveGallery(raw,
                         [gallery EXCEPT ![artworkIndex] = SavedArtworkParsed(updated)],
                         mode)

----------------------------------------------------------------------------
(* removeFromGallery, isInGallery, clearGallery *)

\* mutant of without: cuts the collection at the record instead of skipping it
withoutTruncates(gallery, id) ==
  IF findIndex(gallery, id) = 0 THEN gallery
  ELSE SubSeq(gallery, 1, findIndex(gallery, id) - 1)

RECURSIVE without(_, _)
\* gallery.filter((item) => item.id !== artworkId)
without(gallery, id) ==
  IF gallery = <<>> THEN <<>>
  ELSE IF Head(gallery)["id"] # id
       THEN <<Head(gallery)>> \o without(Tail(gallery), id)
       ELSE without(Tail(gallery), id)

\* mutant of removeFromGallery: saves the filtered collection without the check
removeFromGalleryNoCheck(raw, artworkId, mode) ==
  saveGallery(raw, without(loadGallery(raw, mode), artworkId), mode)

removeFromGallery(raw, artworkId, mode) ==
  LET gallery == loadGallery(raw, mode)
  IN IF ~exists(gallery, artworkId) THEN Outcome("false", raw, 1, 0)
     ELSE saveGallery(raw, without(gallery, artworkId), mode)

\* mutant of isInGallery: writes the validated collection back
isInGalleryRepairs(raw, artworkId, mode) ==
  [saveGallery(raw, loadGallery(raw, mode), mode) EXCEPT
     !.result = IF exists(loadGallery(raw, mode), artworkId) THEN "true" ELSE "false"]

\* mutant of isInGallery: looks at the parsed JSON without validating it
isInGalleryUnvalidated(raw, artworkId, mode) ==
  Outcome(IF /\ ~getItemThrows(mode)
             /\ raw.kind = "array"
             /\ \E i \in 1 .. Len(raw.elems) :
                  raw.elems[i].t = "object" /\ Get(raw.elems[i].o, "id") = artworkId
          THEN "true" ELSE "false",
          raw, 1, 0)

isInGallery(raw, artworkId, mode) ==
  Outcome(IF exists(loadGallery(raw, mode), artworkId) THEN "true" ELSE "false",
          raw, 1, 0)

\* mutant of clearGallery: nothing to remove is an error
clearGalleryRaisesWhenAbsent(raw, mode) ==
  IF removeItemThrows(mode) \/ raw.kind = "absent" THEN Outcome("raised", raw, 0, 0)
  ELSE Outcome("void", Absent, 0, 0)

clearGallery(raw, mode) ==
  IF removeItemThrows(mode) THEN Outcome("raised", raw, 0, 0)
  ELSE Outcome("void", Absent, 0, 0)

----------------------------------------------------------------------------
(* Inputs *)

\* an Artwork as ArtworkSchema yields it for a catalog item without image
\* and without descriptive fields: image_id is defaulted to null
typedArtwork(i) ==
  [id |-> Num(i), title |-> Str("Starry Night"), artist_title |-> Str("Van Gogh"),
   image_id |-> Null]

\* the same item passed as a plain object: no image_id key at all
plainArtwork(i) ==
  [id |-> Num(i), title |-> Str("Starry Night"), artist_title |-> Str("Van Gogh")]

\* a saved item with every kind of field value and a note of its own
savedArtwork(i) ==
  [id |-> Num(i), title |-> Str("Water Lilies"), artist_title |-> Null,
   image_id |-> Str("3c27b499"), date_display |-> Str("1906"),
   medium_display |-> Null, dimensions |-> Str("89.9 x 94.1 cm"),
   note |-> Str("Love the brushwork")]

\* every id as a typed Artwork; the first id also as a plain object, the last
\* id also as a saved item (so that two inputs can share an id)
Artworks ==
  {typedArtwork(i) : i \in Ids} \cup {plainArtwork(1), savedArtwork(NumIds)}

Note500 == Repeat("a", MaxNoteLen)

Note501 == Repeat("a", MaxNoteLen + 1)

\* the empty note, the longest note allowed and the shortest one refused
Notes == {"", Note500, Note501}

----------------------------------------------------------------------------
(* State: the persisted value and the record of the last call *)

NoArtwork == [id |-> Undefined]

\* previous: the result of the call before this one when this call repeats
\* its operation with the same id and note (the second of two calls in
\* succession), "none" otherwise
\* returned: the collection a loadGallery call returned
CallRecord(op, art, id, note, mode, pre, out, previous, returned) ==
  [op |-> op, art |-> art, id |-> id, note |-> note, mode |-> mode, pre |-> pre,
   result |-> out.result, reads |-> out.reads, writes |-> out.writes,
   previous |-> previous, returned |-> returned]

NoCall ==
  CallRecord("none", NoArtwork, Undefined, "", "ok", Absent,
             Outcome("none", Absent, 0, 0), "none", <<>>)

\* a run of a schema's parse on a value: whether it succeeded, what it returned
Checked(schema, input, ok, output) ==
  [schema |-> schema, input |-> input, ok |-> ok, output |-> output]

NoOutput == [id |-> Undefined]

NoCheck == Checked("none", Null, FALSE, NoOutput)

\* the browser contexts (tabs) that share the storage, and a context at rest:
\* pc is where its call stands, pre the raw value its call read, out what the
\* call computed from it, stale whether its write replaced a value it had not read
Tabs == {"A", "B"}

NoTab ==
  [pc |-> "idle", op |-> "none", art |-> NoArtwork, id |-> Undefined, note |-> "",
   pre |-> Absent, out |-> Outcome("none", Absent, 0, 0), result |-> "none",
   stale |-> FALSE]

\* the Gallery component with its NoteEditor, not mounted
NoEditor ==
  [gallery |-> <<>>, open |-> FALSE, id |-> Undefined, note |-> "",
   validationError |-> FALSE, event |-> "none", called |-> FALSE,
   error |-> Null]

\* what a call of searchArtworks gave back: whether it called fetch, and the
\* result when it did not
NoFetch(limit, offset) ==
  [fetch |-> FALSE, data |-> <<>>, total |-> 0, offset |-> offset, limit |-> limit]

\* the SearchInterface component as mounted: its state hooks, the requests
\* of searchArtworks that are in flight, whether the effect on searchResults
\* has still to run, the last event with the query it was given, and what
\* the last direct call of searchArtworks gave back
NoSearch ==
  [searchQuery |-> <<>>, searchResults |-> <<>>, totalResults |-> 0,
   currentPage |-> 1, lastSearchQuery |-> <<>>, isLoading |-> FALSE,
   error |-> Null, galleryIds |-> {}, effect |-> FALSE, requests |-> <<>>,
   event |-> "none", query |-> <<>>, api |-> NoFetch(0, 0)]

\* what one call does to the storage, and its record
CallStep(op, art, id, note, mode, out) ==
  /\ storage' = out.storage
  /\ last' = CallRecord(op, art, id, note, mode, storage, out,
                        IF last.op = op /\ last.id = id /\ last.note = note
                        THEN last.result ELSE "none",
                        IF op = "load" THEN loadGallery(storage, mode) ELSE <<>>)

\* one call runs to completion
Call(op, art, id, note, mode, out) ==
  /\ CallStep(op, art, id, note, mode, out)
  /\ UNCHANGED <<checked, added, tabs, editor, search>>

\* nothing but the store is in play
StoreOnly ==
  /\ checked = NoCheck
  /\ added = <<>>
  /\ tabs = [c \in Tabs |-> NoTab]
  /\ editor = NoEditor
  /\ search = NoSearch

Init ==
  /\ storage = Absent
  /\ last = NoCall
  /\ StoreOnly

AddToGallery ==
  \E artwork \in Artworks, mode \in Modes :
    Call("add", artwork, Get(artwork, "id"), "", mode,
         addToGallery(storage, artwork, mode))

UpdateNote ==
  \E i \in Ids, note \in Notes, mode \in Modes :
    Call("update", NoArtwork, Num(i), note, mode,
         updateNote(storage, Num(i), note, mode))

RemoveFromGallery ==
  \E i \in Ids, mode \in Modes :
    Call("remove", NoArtwork, Num(i), "", mode,
         removeFromGallery(storage, Num(i), mode))

ClearGallery ==
  \E mode \in ReadModes :
    Call("clear", NoArtwork, Undefined, "", mode, clearGallery(storage, mode))

LoadGallery ==
  \E mode \in ReadModes :
    Call("load", NoArtwork, Undefined, "", mode, Outcome("loaded", storage, 1, 0))

IsInGallery ==
  \E i \in Ids, mode \in ReadModes :
    Call("isIn", NoArtwork, Num(i), "", mode, isInGallery(storage, Num(i), mode))

Next ==
  \/ AddToGallery
  \/ UpdateNote
  \/ RemoveFromGallery
  \/ ClearGallery
  \/ LoadGallery
  \/ IsInGallery

Spec == Init /\ [][Next]_vars

----------------------------------------------------------------------------
(* The store with the history of its successful adds *)

MaxAdds == 3

\* added: the ids of the successful addToGallery calls so far, oldest first.
\* The calls are those that can succeed: the storage works and the note is
\* within the limit (a call that fails leaves the storage as it is)
AddInOrder ==
  /\ Len(added) < MaxAdds
  /\ \E artwork \in Artworks :
       LET out == addToGallery(storage, artwork, "ok")
       IN /\ CallStep("add", artwork, Get(artwork, "id"), "", "ok", out)
          /\ added' = IF out.result = "true"
                      THEN Append(added, Get(artwork, "id")) ELSE added
  /\ UNCHANGED <<checked, tabs, editor, search>>

UpdateInOrder ==
  \E i \in Ids, note \in {n \in Notes : ~noteTooLong(n)} :
    Call("update", NoArtwork, Num(i), note, "ok",
         updateNote(storage, Num(i), note, "ok"))

RemoveInOrder ==
  \E i \in Ids :
    Call("remove", NoArtwork, Num(i), "", "ok",
         removeFromGallery(storage, Num(i), "ok"))

NextOrder ==
  \/ AddInOrder
  \/ UpdateInOrder
  \/ RemoveInOrder

SpecOrder == Init /\ [][NextOrder]_vars

----------------------------------------------------------------------------
(* Two contexts that share the storage: a call is a read and a later write *)

\* mutant of setItem: the records already stored under the key are kept in front
setItemMerges(current, value) ==
  IF current.kind = "array" /\ value.kind = "array"
  THEN Raw("array", current.elems \o value.elems)
  ELSE value

\* localStorage.setItem(key, value): the value replaces what is under the key
setItem(current, value) == value

\* loadGallery() of a call in context c: the call reads the storage and
\* computes, without any further access, its result or the collection to save
TabRead(c, op, art, id, note, out) ==
  /\ tabs[c].pc = "idle"
  /\ tabs' = [tabs EXCEPT ![c] =
       IF out.writes = 1
       THEN [pc |-> "write", op |-> op, art |-> art, id |-> id, note |-> note,
             pre |-> storage, out |-> out, result |-> "none", stale |-> FALSE]
       ELSE NoTab]
  /\ UNCHANGED <<storage, last, checked, added, editor, search>>

TabAdd ==
  \E c \in Tabs, i \in Ids :
    TabRead(c, "add", typedArtwork(i), Num(i), "",
            addToGallery(storage, typedArtwork(i), "ok"))

TabUpdate ==
  \E c \in Tabs, i \in Ids :
    TabRead(c, "update", NoArtwork, Num(i), "Love the brushwork",
            updateNote(storage, Num(i), "Love the brushwork", "ok"))

TabRemove ==
  \E c \in Tabs, i \in Ids :
    TabRead(c, "remove", NoArtwork, Num(i), "",
            removeFromGallery(storage, Num(i), "ok"))

\* saveGallery(gallery) of the call in context c, whatever is stored by now;
\* of an addToGallery that has written the context keeps the id, and whether
\* the write replaced a value the call had not read
TabWrite ==
  \E c \in Tabs :
    /\ tabs[c].pc = "write"
    /\ storage' = setItem(storage, tabs[c].out.storage)
    /\ tabs' = [tabs EXCEPT ![c] =
         IF tabs[c].op = "add"
         THEN [NoTab EXCEPT !.op = "add", !.id = tabs[c].id, !.result = "true",
                            !.stale = storage # tabs[c].pre]
         ELSE NoTab]
    /\ UNCHANGED <<last, checked, added, editor, search>>

NextTabs ==
  \/ TabAdd
  \/ TabUpdate
  \/ TabRemove
  \/ TabWrite

SpecTabs == Init /\ [][NextTabs]_vars

----------------------------------------------------------------------------
(* The store over a persisted value it did not write itself *)

MaxRawLen == 2

\* a record as the store writes it
rawSaved == stringifyRecord(savedArtworkOf(typedArtwork(1)))

\* a record with a note of 501 characters
rawLongNote ==
  Obj([id |-> Num(2), title |-> Str("Water Lilies"), artist_title |-> Null,
       image_id |-> Str("3c27b499"), note |-> Str(Note501)])

\* a record without a note key
rawNoNote ==
  Obj([id |-> Num(2), title |-> Str("Water Lilies"), artist_title |-> Null,
       image_id |-> Null, date_display |-> Str("1906")])

\* a record without an id key
rawNoId ==
  Obj([title |-> Str("Starry Night"), artist_title |-> Str("Van Gogh"),
       image_id |-> Null, note |-> Str("")])

\* a record without an image_id key
rawNoImage ==
  Obj([id |-> Num(1), title |-> Str("Starry Night"), artist_title |-> Str("Van Gogh"),
       note |-> Str("")])

RawElems == {rawSaved, rawLongNote, rawNoNote, rawNoId, rawNoImage, Null}

RawArrays == UNION {[1 .. n -> RawElems] : n \in 0 .. MaxRawLen}

\* nothing, "", a text that is no JSON, a JSON object that is no array (a
\* single record), and the JSON arrays over RawElems
RawValues ==
  {Absent, Raw("empty", <<>>), Raw("garbage", <<>>), Raw("nonarray", <<rawSaved>>)}
    \cup {Raw("array", a) : a \in RawArrays}

InitRaw ==
  /\ storage \in RawValues
  /\ last = NoCall
  /\ StoreOnly

\* one call of an operation on each of these values: what a call does depends
\* on the persisted value, its arguments and the storage mode only; after a
\* clearGallery the storage is absent again, and clearGallery may be repeated
FirstCall == last.op = "none"

NextRaw ==
  \/ FirstCall /\ AddToGallery
  \/ FirstCall /\ UpdateNote
  \/ FirstCall /\ RemoveFromGallery
  \/ (FirstCall \/ last.op = "clear") /\ ClearGallery
  \/ FirstCall /\ LoadGallery
  \/ FirstCall /\ IsInGallery

SpecRaw == InitRaw /\ [][NextRaw]_vars

----------------------------------------------------------------------------
(* The Gallery component and its NoteEditor over a persisted value *)

InitEditor ==
  /\ storage \in RawValues
  /\ last = NoCall
  /\ StoreOnly

\* useEffect(() => loadGalleryData(), []) of Gallery
Mount ==
  /\ editor.event = "none"
  /\ editor' = [editor EXCEPT !.gallery = loadGallery(storage, "ok"),
                              !.error = Null,
                              !.event = "mount"]
  /\ UNCHANGED <<storage, last, checked, added, tabs, search>>

\* handleEditNote(artworkId, currentNote), called by the card of a record of
\* the gallery with the note the card was given or any other text; a
\* NoteEditor that is mounted already takes over currentNote (useEffect)
HandleEditNote ==
  /\ editor.event # "none"
  /\ \E i \in 1 .. Len(editor.gallery) :
       \E currentNote \in {editor.gallery[i]["note"].s} \cup Notes :
         editor' = [editor EXCEPT
                      !.open = TRUE,
                      !.id = editor.gallery[i]["id"],
                      !.note = currentNote,
                      !.validationError = editor.open /\ editor.validationError,
                      !.event = "edit",
                      !.called = FALSE]
  /\ UNCHANGED <<storage, last, checked, added, tabs, search>>

\* handleNoteChange(e) of NoteEditor
HandleNoteChange ==
  /\ editor.open
  /\ \E newNote \in Notes :
       editor' = [editor EXCEPT
                    !.note = newNote,
                    !.validationError =
                      ~NoteSchemaValid(Obj([artworkId |-> editor.id,
                                            note |-> Str(newNote)])),
                    !.event = "change",
                    !.called = FALSE]
  /\ UNCHANGED <<storage, last, checked, added, tabs, search>>

\* handleSave() of NoteEditor; onSave is handleSaveNote of Gallery, which
\* calls updateNote, reloads and closes the editor on true, and catches
HandleSave ==
  /\ editor.open
  /\ IF NoteSchemaValid(Obj([artworkId |-> editor.id, note |-> Str(editor.note)]))
     THEN \E mode \in Modes :
            LET out == updateNote(storage, editor.id, editor.note, mode)
            IN /\ CallStep("update", NoArtwork, editor.id, editor.note, mode, out)
               /\ editor' = [editor EXCEPT
                     !.gallery = IF out.result = "true"
                                 THEN loadGallery(out.storage, mode) ELSE @,
                     !.open = out.result # "true",
                     !.error =
                       IF out.result = "true" THEN Null
                       ELSE IF out.result = "raised"
                            THEN Str("Notiz konnte nicht gespeichert werden")
                            ELSE @,
                     !.validationError = FALSE,
                     !.event = "save",
                     !.called = TRUE]
     ELSE /\ editor' = [editor EXCEPT !.validationError = TRUE,
                                      !.event = "save",
                                      !.called = FALSE]
          /\ UNCHANGED <<storage, last>>
  /\ UNCHANGED <<checked, added, tabs, search>>

\* handleCancel() of NoteEditor; onCancel is handleCancelEdit of Gallery
HandleCancel ==
  /\ editor.open
  /\ editor' = [editor EXCEPT !.open = FALSE, !.validationError = FALSE,
                              !.event = "cancel", !.called = FALSE]
  /\ UNCHANGED <<storage, last, checked, added, tabs, search>>

NextEditor ==
  \/ Mount
  \/ HandleEditNote
  \/ HandleNoteChange
  \/ HandleSave
  \/ HandleCancel

SpecEditor == InitEditor /\ [][NextEditor]_vars

\* mutant of editingAfterRemove: the editor stays as it is
editingAfterRemoveKeeps(open, editingId, artworkId) == open

\* editingArtwork after a successful remove: null when it was the removed one
editingAfterRemove(open, editingId, artworkId) == open /\ editingId # artworkId

\* handleRemoveFromGallery(artworkId), called by the card of a record of the
\* gallery
HandleRemoveFromGallery ==
  /\ editor.event # "none"
  /\ \E i \in 1 .. Len(editor.gallery), mode \in Modes :
       LET artworkId == editor.gallery[i]["id"]
           out == removeFromGallery(storage, artworkId, mode)
       IN /\ CallStep("remove", NoArtwork, artworkId, "", mode, out)
          /\ editor' = [editor EXCEPT
                !.gallery = IF out.result = "true"
                            THEN loadGallery(out.storage, mode) ELSE @,
                !.open = IF out.result = "true"
                         THEN editingAfterRemove(editor.open, editor.id, artworkId)
                         ELSE @,
                !.error =
                  IF out.result = "true" THEN Null
                  ELSE IF out.result = "raised"
                       THEN Str("Kunstwerk konnte nicht entfernt werden")
                       ELSE @,
                !.event = "remove",
                !.called = FALSE]
  /\ UNCHANGED <<checked, added, tabs, search>>

\* persisted collections the Gallery view starts from: two records, one of
\* them with a note of 501 characters; a record and an element without id;
\* one record
GalleryValues ==
  {Raw("array", <<rawSaved, rawLongNote>>), Raw("array", <<rawNoId, rawSaved>>),
   Raw("array", <<rawSaved>>)}

InitGallery ==
  /\ storage \in GalleryValues
  /\ last = NoCall
  /\ StoreOnly

NextGallery ==
  \/ Mount
  \/ HandleEditNote
  \/ HandleNoteChange
  \/ HandleSave
  \/ HandleCancel
  \/ HandleRemoveFromGallery

\* the Gallery view in a single context
SpecGallery == InitGallery /\ [][NextGallery]_vars

\* removeFromGallery(artworkId) with success in another context that shares
\* the key: the storage changes, this context's components do not
OtherContextRemoves ==
  /\ \E i \in Ids :
       /\ removeFromGallery(storage, Num(i), "ok").result = "true"
       /\ storage' = removeFromGallery(storage, Num(i), "ok").storage
  /\ UNCHANGED <<last, checked, added, tabs, editor, search>>

NextShared ==
  \/ Mount
  \/ HandleEditNote
  \/ HandleNoteChange
  \/ HandleSave
  \/ HandleCancel
  \/ HandleRemoveFromGallery
  \/ OtherContextRemoves

\* the Gallery view while another context removes records
SpecShared == InitGallery /\ [][NextShared]_vars

----------------------------------------------------------------------------
(* The two schemas run on untrusted values *)

IdValues == {Undefined, Null, Num(1), Frac(1, "5"), Str("1")}

TextValues == {Undefined, Null, Str("Starry Night"), Num(7)}

ImageValues == {Undefined, Null, Str("3c27b499")}

NoteValues == {Undefined, Null, Str(""), Str(Note500), Str(Note501)}

\* objects with each field absent (undefined), null, of the type the schemas
\* ask for, or of another type; and two values that are no objects
SchemaInputs ==
  {Obj(f) : f \in [id : IdValues, title : TextValues, artist_title : TextValues,
                   image_id : ImageValues, date_display : TextValues,
                   note : NoteValues]}
    \cup {Null, Str("Starry Night")}

\* a value is handed in, then one of the schemas parses it
InitSchemas ==
  /\ storage = Absent
  /\ last = NoCall
  /\ checked \in {Checked("none", v, FALSE, NoOutput) : v \in SchemaInputs}
  /\ added = <<>>
  /\ tabs = [c \in Tabs |-> NoTab]
  /\ editor = NoEditor
  /\ search = NoSearch

ParseSavedArtwork ==
  /\ checked.schema = "none"
  /\ checked' = Checked("SavedArtworkSchema", checked.input,
                        SavedArtworkValid(checked.input),
                        IF SavedArtworkValid(checked.input)
                        THEN SavedArtworkParsed(checked.input) ELSE NoOutput)
  /\ UNCHANGED <<storage, last, added, tabs, editor, search>>

ParseArtwork ==
  /\ checked.schema = "none"
  /\ checked' = Checked("ArtworkSchema", checked.input,
                        ArtworkValid(checked.input),
                        IF ArtworkValid(checked.input)
                        THEN ArtworkParsed(checked.input) ELSE NoOutput)
  /\ UNCHANGED <<storage, last, added, tabs, editor, search>>

NextSchemas ==
  \/ ParseSavedArtwork
  \/ ParseArtwork

SpecSchemas == InitSchemas /\ [][NextSchemas]_vars

----------------------------------------------------------------------------
(* searchArtworks and the SearchInterface component *)

RESULTS_PER_PAGE == 20

\* a query is the sequence of its characters
Whitespace == {" ", "\t", "\n"}

RECURSIVE trimStart(_)
trimStart(q) ==
  IF q # <<>> /\ Head(q) \in Whitespace THEN trimStart(Tail(q)) ELSE q

RECURSIVE trimEnd(_)
trimEnd(q) ==
  IF q # <<>> /\ q[Len(q)] \in Whitespace
  THEN trimEnd(SubSeq(q, 1, Len(q) - 1)) ELSE q

\* String.prototype.trim
trim(q) == trimEnd(trimStart(q))

Monet == <<"m", "o", "n", "e", "t">>

\* what the user types: nothing, white space only, a query with results on
\* two pages, a query with white space around it and no result
Queries == {<<>>, <<" ", "\t">>, Monet, <<" ", "x", "y", "z", " ">>}

\* a record of the search response, as the API sends it: no image_id key
apiArtwork(i) ==
  Obj([id |-> Num(i), title |-> Str("Water Lilies"), artist_title |-> Str("Claude Monet")])

\* the API's answer to q, limit and offset: Monet has RESULTS_PER_PAGE + 1
\* records, of which the model lists two of the first page and the one of
\* the second; every other query has none
apiData(q, limit, offset) ==
  IF q # Monet THEN <<>>
  ELSE IF offset = 0 THEN <<apiArtwork(1), apiArtwork(2)>>
  ELSE IF offset = limit THEN <<apiArtwork(3)>>
  ELSE <<>>

apiTotal(q) == IF q = Monet THEN RESULTS_PER_PAGE + 1 ELSE 0

\* what comes back for a request: fetch rejects, a status that is not ok, a
\* body that ArtworkAPIResponseSchema rejects (a record without id), or the
\* API's answer
Responses(url) ==
  { [kind |-> "network", ok |-> FALSE, data |-> <<>>, total |-> Undefined],
    [kind |-> "http", ok |-> FALSE, data |-> <<>>, total |-> Undefined],
    [kind |-> "body", ok |-> TRUE,
     data |-> <<Obj([title |-> Str("Water Lilies")])>>, total |-> Num(1)],
    [kind |-> "body", ok |-> TRUE,
     data |-> apiData(url.q, url.limit, url.offset), total |-> Num(apiTotal(url.q))] }

\* ArtworkAPIResponseSchema.parse: data is an array of ArtworkSchema
ArtworkAPIResponseValid(data) ==
  \A i \in 1 .. Len(data) : ArtworkValid(data[i])

ArtworkAPIResponseParsed(data) ==
  [i \in 1 .. Len(data) |-> ArtworkParsed(data[i])]

\* mutant of searchArtworks: no check of the query
searchArtworksNoGuard(query, limit, offset) ==
  [NoFetch(limit, offset) EXCEPT !.fetch = TRUE]

\* searchArtworks up to its await: a blank query returns at once, any other
\* calls fetch with the url
searchArtworks(query, limit, offset) ==
  IF trim(query) = <<>>
  THEN NoFetch(limit, offset)
  ELSE [NoFetch(limit, offset) EXCEPT !.fetch = TRUE]

Url(query, limit, offset) == [q |-> query, limit |-> limit, offset |-> offset]

\* searchArtworks after the await: how its promise settles on a response
searchArtworksSettled(response) ==
  IF response.kind = "network"
  THEN [status |-> "rejected", data |-> <<>>, total |-> 0,
        message |-> "Kunstwerke konnten nicht geladen werden: Failed to fetch"]
  ELSE IF ~response.ok
  THEN [status |-> "rejected", data |-> <<>>, total |-> 0,
        message |-> "Kunstwerke konnten nicht geladen werden: API-Anfrage fehlgeschlagen: 500 Internal Server Error"]
  ELSE IF ~ArtworkAPIResponseValid(response.data)
  THEN [status |-> "rejected", data |-> <<>>, total |-> 0,
        message |-> "Kunstwerke konnten nicht geladen werden: ZodError"]
  ELSE [status |-> "fulfilled", data |-> ArtworkAPIResponseParsed(response.data),
        total |-> IF response.total.t = "number" THEN response.total.n ELSE 0,
        message |-> ""]

\* what searchArtworks gives for a query and a page when the API answers
ResultsOf(query, page) ==
  IF searchArtworks(query, RESULTS_PER_PAGE, (page - 1) * RESULTS_PER_PAGE).fetch
  THEN ArtworkAPIResponseParsed(
         apiData(query, RESULTS_PER_PAGE, (page - 1) * RESULTS_PER_PAGE))
  ELSE <<>>

\* Math.ceil(totalResults / RESULTS_PER_PAGE)
totalPages(view) == (view.totalResults + RESULTS_PER_PAGE - 1) \div RESULTS_PER_PAGE

\* mutant of performSearch: no check of the query
performSearchNoGuard(view, query, page) ==
  [view EXCEPT
     !.isLoading = TRUE,
     !.error = Null,
     !.lastSearchQuery = query,
     !.currentPage = page,
     !.requests =
       IF searchArtworks(query, RESULTS_PER_PAGE, (page - 1) * RESULTS_PER_PAGE).fetch
       THEN Append(@, [url |-> Url(query, RESULTS_PER_PAGE, (page - 1) * RESULTS_PER_PAGE),
                       page |-> page])
       ELSE @]

\* performSearch up to its await
performSearch(view, query, page) ==
  IF trim(query) = <<>>
  THEN [view EXCEPT !.error = Str("Bitte geben Sie einen Suchbegriff ein")]
  ELSE [view EXCEPT
          !.isLoading = TRUE,
          !.error = Null,
          !.lastSearchQuery = query,
          !.currentPage = page,
          !.requests =
            IF searchArtworks(query, RESULTS_PER_PAGE, (page - 1) * RESULTS_PER_PAGE).fetch
            THEN Append(@, [url |-> Url(query, RESULTS_PER_PAGE, (page - 1) * RESULTS_PER_PAGE),
                            page |-> page])
            ELSE @]

\* mutant of performSearchSettled: no finally block
performSearchSettledNoFinally(view, page, settled) ==
  IF settled.status = "fulfilled"
  THEN [view EXCEPT
          !.searchResults = settled.data,
          !.totalResults = settled.total,
          !.error = IF Len(settled.data) = 0 /\ page = 1
                    THEN Str("Keine Kunstwerke gefunden. Versuchen Sie einen anderen Suchbegriff.")
                    ELSE @,
          !.effect = TRUE,
          !.isLoading = FALSE]
  ELSE [view EXCEPT !.error = Str(settled.message)]

\* performSearch after its await: try, catch and finally
performSearchSettled(view, page, settled) ==
  IF settled.status = "fulfilled"
  THEN [view EXCEPT
          !.searchResults = settled.data,
          !.totalResults = settled.total,
          !.error = IF Len(settled.data) = 0 /\ page = 1
                    THEN Str("Keine Kunstwerke gefunden. Versuchen Sie einen anderen Suchbegriff.")
                    ELSE @,
          !.effect = TRUE,
          !.isLoading = FALSE]
  ELSE [view EXCEPT !.error = Str(settled.message), !.isLoading = FALSE]

\* mutant of loadGalleryIds: the ids of all results
loadGalleryIdsAll(view, raw) ==
  {view.searchResults[i]["id"] : i \in 1 .. Len(view.searchResults)}

loadGalleryIds(view, raw) ==
  {view.searchResults[i]["id"] :
     i \in {j \in 1 .. Len(view.searchResults) :
              isInGallery(raw, view.searchResults[j]["id"], "ok").result = "true"}}

\* mutant of submitDisabled: the button is disabled on a blank query only
submitDisabledBlankOnly(view) == trim(view.searchQuery) = <<>>

\* the disabled attribute of the submit button
submitDisabled(view) == view.isLoading \/ trim(view.searchQuery) = <<>>

\* the results block with its cards is rendered
resultsRendered(view) == ~view.isLoading /\ Len(view.searchResults) > 0

\* the pagination buttons are rendered
paginationRendered(view) == resultsRendered(view) /\ totalPages(view) > 1

\* the user may act: the view is rendered and its effects have run
Idle == ~search.effect

HandleSearchQueryChange ==
  /\ Idle
  /\ ~search.isLoading
  /\ \E text \in Queries :
       /\ text # search.searchQuery
       /\ search' = [search EXCEPT !.searchQuery = text, !.error = Null,
                                   !.event = "change"]
  /\ UNCHANGED <<storage, last, checked, added, tabs, editor>>

HandleSearch ==
  /\ Idle
  /\ ~submitDisabled(search)
  /\ search' = [performSearch(search, search.searchQuery, 1) EXCEPT
                  !.event = "search", !.query = search.searchQuery]
  /\ UNCHANGED <<storage, last, checked, added, tabs, editor>>

PreviousPage ==
  /\ Idle
  /\ paginationRendered(search)
  /\ ~(search.currentPage = 1 \/ search.isLoading)
  /\ search' = [performSearch(search, search.lastSearchQuery, search.currentPage - 1) EXCEPT
                  !.event = "page", !.query = search.lastSearchQuery]
  /\ UNCHANGED <<storage, last, checked, added, tabs, editor>>

NextPage ==
  /\ Idle
  /\ paginationRendered(search)
  /\ ~(search.currentPage = totalPages(search) \/ search.isLoading)
  /\ search' = [performSearch(search, search.lastSearchQuery, search.currentPage + 1) EXCEPT
                  !.event = "page", !.query = search.lastSearchQuery]
  /\ UNCHANGED <<storage, last, checked, added, tabs, editor>>

\* the request comes back and performSearch runs to its end
Respond ==
  /\ \E i \in 1 .. Len(search.requests) :
       \E response \in Responses(search.requests[i].url) :
         LET settled == searchArtworksSettled(response)
             rest == SubSeq(search.requests, 1, i - 1)
                       \o SubSeq(search.requests, i + 1, Len(search.requests))
         IN search' = [performSearchSettled(search, search.requests[i].page, settled) EXCEPT
                         !.requests = rest,
                         !.event = settled.status]
  /\ UNCHANGED <<storage, last, checked, added, tabs, editor>>

\* the effect on searchResults
GalleryIdsEffect ==
  /\ search.effect
  /\ search' = [search EXCEPT
                  !.galleryIds = IF Len(search.searchResults) > 0
                                 THEN loadGalleryIds(search, storage) ELSE @,
                  !.effect = FALSE,
                  !.event = "effect"]
  /\ UNCHANGED <<storage, last, checked, added, tabs, editor>>

HandleAddToGallery ==
  /\ Idle
  /\ resultsRendered(search)
  /\ \E i \in 1 .. Len(search.searchResults), mode \in Modes :
       LET artwork == search.searchResults[i]
           out == addToGallery(storage, artwork, mode)
       IN /\ CallStep("add", artwork, artwork["id"], "", mode, out)
          /\ search' = [search EXCEPT
                          !.galleryIds = IF out.result = "true"
                                         THEN @ \cup {artwork["id"]} ELSE @,
                          !.error = IF out.result = "raised"
                                    THEN Str("Kunstwerk konnte nicht zur Galerie hinzugefügt werden")
                                    ELSE @,
                          !.event = "add"]
  /\ UNCHANGED <<checked, added, tabs, editor>>

\* the gallery holds the first record of the search before the view is mounted
SearchValues == {Raw("array", <<rawSaved>>)}

InitSearch ==
  /\ storage \in SearchValues
  /\ last = NoCall
  /\ StoreOnly

NextSearch ==
  \/ HandleSearchQueryChange
  \/ HandleSearch
  \/ PreviousPage
  \/ NextPage
  \/ Respond
  \/ GalleryIdsEffect
  \/ HandleAddToGallery

SpecSearch == InitSearch /\ [][NextSearch]_vars

\* the request that is in flight comes back: fetch settles
SpecSearchLive == SpecSearch /\ WF_vars(Respond)

\* the queries of Queries that are empty once trimmed
BlankQueries == {q \in Queries : trim(q) = <<>>}

\* performSearch called with a blank query, whatever the view shows
PerformSearchBlank ==
  /\ Idle
  /\ \E query \in BlankQueries, page \in {1, search.currentPage + 1} :
       search' = [performSearch(search, query, page) EXCEPT
                    !.event = "performSearch", !.query = query]
  /\ UNCHANGED <<storage, last, checked, added, tabs, editor>>

\* searchArtworks called with a blank query
SearchArtworksBlank ==
  /\ Idle
  /\ \E query \in BlankQueries, page \in {1, search.currentPage + 1} :
       LET returned == searchArtworks(query, RESULTS_PER_PAGE, (page - 1) * RESULTS_PER_PAGE)
       IN search' = [search EXCEPT
                       !.api = returned,
                       !.requests =
                         IF returned.fetch
                         THEN Append(@, [url |-> Url(query, RESULTS_PER_PAGE,
                                                     (page - 1) * RESULTS_PER_PAGE),
                                         page |-> page])
                         ELSE @,
                       !.event = "searchArtworks",
                       !.query = query]
  /\ UNCHANGED <<storage, last, checked, added, tabs, editor>>

NextCalls ==
  \/ HandleSearchQueryChange
  \/ HandleSearch
  \/ PreviousPage
  \/ NextPage
  \/ Respond
  \/ GalleryIdsEffect
  \/ PerformSearchBlank
  \/ SearchArtworksBlank

SpecCalls == InitSearch /\ [][NextCalls]_vars

----------------------------------------------------------------------------
(* What the claims speak about *)

\* what loadGallery() returns for a persisted value while the storage works
Loaded(raw) == loadGallery(raw, "ok")

\* the records of the persisted JSON array, as JSON.parse gives them back
Persisted(raw) == IF raw.kind = "array" THEN raw.elems ELSE <<>>

PersistedId(raw, i) ==
  IF Persisted(raw)[i].t = "object" THEN Get(Persisted(raw)[i].o, "id") ELSE Undefined

PersistedField(raw, i, k) == Get(Persisted(raw)[i].o, k)

\* the call recorded in c found a record with its id in the collection it loaded
FoundIn(c) == exists(loadGallery(c.pre, c.mode), c.id)

\* the note the persisted value holds for the id
StoredNotes(raw, id) ==
  {PersistedField(raw, i, "note") : i \in {j \in 1 .. Len(Persisted(raw)) : PersistedId(raw, j) = id}}

----------------------------------------------------------------------------
(* C1: from absent storage, after any sequence of addToGallery, updateNote,
   removeFromGallery and clearGallery calls, the collection persisted under
   aic_gallery never holds two records with the same id. *)
C1_UniqueIds ==
  \A i, j \in 1 .. Len(Persisted(storage)) :
    i # j => PersistedId(storage, i) # PersistedId(storage, j)

\* two records are persisted and an add of an id among them has just been refused
C1_Witness ==
  /\ Len(Persisted(storage)) = 2
  /\ last.op = "add"
  /\ last.result = "false"

(* C2: addToGallery with an item whose id occurs in the loaded collection
   returns false and leaves the persisted raw value exactly as it was: no
   write is performed and nothing is raised. *)
C2_DuplicateAddIsNoop ==
  (last.op = "add" /\ FoundIn(last)) =>
    /\ last.result = "false"
    /\ last.writes = 0
    /\ storage = last.pre

\* an id is refused although the item passed differs from the record stored
C2_Witness ==
  /\ last.op = "add"
  /\ FoundIn(last)
  /\ last.result = "false"
  /\ \E i \in 1 .. Len(Loaded(storage)) :
       /\ Loaded(storage)[i]["id"] = last.id
       /\ Loaded(storage)[i]["title"] # Get(last.art, "title")

(* C3: two addToGallery calls in succession with the same id, the id not in
   the gallery before the first, the first item an Artwork and the storage
   working during both calls: the first returns true, the second false, and
   loadGallery() is then exactly one record longer than before the first. *)
C3_AddTwice ==
  [][(/\ last.op = "add" /\ last'.op = "add" /\ last'.id = last.id
      /\ last.mode = "ok" /\ last'.mode = "ok"
      /\ IsArtwork(last.art)
      /\ ~exists(Loaded(last.pre), last.id))
     => (/\ last.result = "true"
         /\ last'.result = "false"
         /\ Len(Loaded(storage')) = Len(Loaded(last.pre)) + 1)]_vars

\* the second of two adds of one id has returned false after the first returned true
C3_Witness ==
  /\ last.op = "add"
  /\ last.previous = "true"
  /\ last.result = "false"
  /\ last.mode = "ok"

(* C4: addToGallery with a valid item (an Artwork) whose id is not in the
   loaded collection, the write succeeding, returns true, and the persisted
   collection is then the loaded collection, records and order unchanged,
   followed by one new record with the item's id and fields and note "". *)
C4_AddAppends ==
  (/\ last.op = "add"
   /\ IsArtwork(last.art)
   /\ ~FoundIn(last)
   /\ ~setItemThrows(last.mode)) =>
    LET before == loadGallery(last.pre, last.mode)
        n == Len(before)
    IN /\ last.result = "true"
       /\ storage.kind = "array"
       /\ Len(Persisted(storage)) = n + 1
       /\ \A i \in 1 .. n : \A k \in SavedFields :
            PersistedField(storage, i, k) = before[i][k]
       /\ \A k \in SavedFields \ {"note"} :
            PersistedField(storage, n + 1, k) = Get(last.art, k)
       /\ PersistedField(storage, n + 1, "note") = Str("")

\* an item that carries a note of its own was appended behind a record with a note
C4_Witness ==
  /\ last.op = "add"
  /\ last.result = "true"
  /\ Get(last.art, "note").t = "string"
  /\ Len(Persisted(storage)) = 2
  /\ PersistedField(storage, 1, "note") = Str(Note500)

(* C5: for a valid saved item s whose id is not yet in the gallery,
   addToGallery(s) followed by loadGallery() (the storage working) returns a
   collection with a record equal to s in every field except that its note
   is "". *)
C5_AddLoadRoundTrip ==
  (/\ last.op = "add"
   /\ SavedArtworkValid(Obj(last.art))
   /\ last.mode = "ok"
   /\ ~exists(Loaded(last.pre), last.id)) =>
    \E i \in 1 .. Len(Loaded(storage)) :
      \A k \in SavedFields :
        Loaded(storage)[i][k] = IF k = "note" THEN Str("") ELSE Get(last.art, k)

\* the saved item with null, absent and string fields and its own note was added
C5_Witness ==
  /\ last.op = "add"
  /\ last.art = savedArtwork(NumIds)
  /\ last.result = "true"
  /\ exists(Loaded(storage), last.id)

(* C6: the end-to-end scenario.  From empty storage
   addToGallery({id: 1, title: "Starry Night", artist_title: "Van Gogh"}),
   no image_id supplied, returns true, and loadGallery() then returns exactly
   one record with id 1, that title and artist and note "" (the scenario goes
   on with updateNote and removeFromGallery on that record). *)
C6_ScenarioFirstStep ==
  (/\ last.op = "add"
   /\ last.art = plainArtwork(1)
   /\ last.pre = Absent
   /\ last.mode = "ok") =>
    /\ last.result = "true"
    /\ Len(Loaded(storage)) = 1
    /\ Loaded(storage)[1]["id"] = Num(1)
    /\ Loaded(storage)[1]["title"] = Str("Starry Night")
    /\ Loaded(storage)[1]["artist_title"] = Str("Van Gogh")
    /\ Loaded(storage)[1]["note"] = Str("")

\* the same scenario with image_id: null supplied, as ArtworkSchema yields the
\* item: the add, then the update of the note, then the remove, go as described
C6_ScenarioWithImageId ==
  [][/\ (/\ last'.op = "add" /\ last'.art = typedArtwork(1)
         /\ last'.pre = Absent /\ last'.mode = "ok")
        => (/\ last'.result = "true"
            /\ Loaded(storage') = <<savedArtworkOf(typedArtwork(1))>>)
     /\ (/\ last.op = "add" /\ last.result = "true" /\ last.pre = Absent
         /\ last'.op = "update" /\ last'.id = last.id /\ last'.mode = "ok"
         /\ ~noteTooLong(last'.note))
        => (/\ last'.result = "true"
            /\ Len(Loaded(storage')) = 1
            /\ Loaded(storage')[1]["note"] = Str(last'.note))
     /\ (/\ last.op = "update" /\ last.result = "true" /\ Len(Loaded(storage)) = 1
         /\ last'.op = "remove" /\ last'.id = last.id /\ last'.mode = "ok")
        => (/\ last'.result = "true"
            /\ Loaded(storage') = <<>>)]_vars

(* C7: for an id present in the gallery, updateNote(id, s) with s of exactly
   500 characters (the storage working) returns true and stores s; with s of
   501 characters it raises and the persisted raw value is unchanged. *)
C7_NoteLengthBoundary ==
  /\ (/\ last.op = "update"
      /\ exists(Loaded(last.pre), last.id)
      /\ Len(last.note) = MaxNoteLen
      /\ last.mode = "ok")
     => (/\ last.result = "true"
         /\ StoredNotes(storage, last.id) = {Str(last.note)})
  /\ (/\ last.op = "update"
      /\ exists(Loaded(last.pre), last.id)
      /\ Len(last.note) = MaxNoteLen + 1)
     => (/\ last.result = "raised"
         /\ storage = last.pre)

\* a note of 501 characters was refused for a record that holds one of 500
C7_Witness ==
  /\ last.op = "update"
  /\ Len(last.note) = MaxNoteLen + 1
  /\ last.result = "raised"
  /\ StoredNotes(storage, last.id) = {Str(Note500)}

(* C8: updateNote with a note longer than 500 characters fails before any
   storage access: the call performs no getItem and no setItem, whatever the
   id and whatever the persisted state. *)
C8_FailFast ==
  (last.op = "update" /\ Len(last.note) > MaxNoteLen) =>
    /\ last.result = "raised"
    /\ last.reads = 0
    /\ last.writes = 0

\* an over-length note for an id that is persisted, among two records
C8_Witness ==
  /\ last.op = "update"
  /\ Len(last.note) > MaxNoteLen
  /\ last.result = "raised"
  /\ Len(Persisted(storage)) = 2
  /\ exists(Loaded(storage), last.id)

(* C9: updateNote(id, note) with a note of at most 500 characters, a record
   with that id in the loaded collection and the write succeeding returns
   true, and the persisted collection then has the same records in the same
   order as before, only the matching record's note being the given note. *)
C9_UpdateReplacesNote ==
  (/\ last.op = "update"
   /\ Len(last.note) <= MaxNoteLen
   /\ FoundIn(last)
   /\ ~setItemThrows(last.mode)) =>
    LET before == loadGallery(last.pre, last.mode)
    IN /\ last.result = "true"
       /\ storage.kind = "array"
       /\ Len(Persisted(storage)) = Len(before)
       /\ \A i \in 1 .. Len(before) : \A k \in SavedFields :
            PersistedField(storage, i, k) =
              IF before[i]["id"] = last.id /\ k = "note"
              THEN Str(last.note) ELSE before[i][k]

\* the first of two records got a new note, the second keeps a different one
C9_Witness ==
  /\ last.op = "update"
  /\ last.result = "true"
  /\ Len(Persisted(storage)) = 2
  /\ PersistedId(storage, 1) = last.id
  /\ StoredNotes(last.pre, last.id) # {Str(last.note)}
  /\ PersistedField(storage, 2, "note") # Str(last.note)

(* C10: for an id present in the gallery, updateNote(id, x) called twice in
   succession (x a note of at most 500 characters, the storage working)
   returns true both times, the stored note is x after the first call and
   after the second, and the persisted collection after the second call
   equals the one after the first. *)
C10_UpdateTwice ==
  [][(/\ last.op = "update" /\ last'.op = "update"
      /\ last'.id = last.id /\ last'.note = last.note
      /\ Len(last.note) <= MaxNoteLen
      /\ last.mode = "ok" /\ last'.mode = "ok"
      /\ exists(Loaded(last.pre), last.id))
     => (/\ last.result = "true"
         /\ last'.result = "true"
         /\ StoredNotes(storage, last.id) = {Str(last.note)}
         /\ StoredNotes(storage', last.id) = {Str(last.note)}
         /\ storage' = storage)]_vars

\* the second of two equal updates returned true and left the note in place
C10_Witness ==
  /\ last.op = "update"
  /\ last.previous = "true"
  /\ last.result = "true"
  /\ last.note = Note500
  /\ StoredNotes(storage, last.id) = {Str(Note500)}
  /\ storage = last.pre

(* C11: for any persisted value and any id that matches no record of its
   collection, updateNote(id, note) with a note of at most 500 characters and
   removeFromGallery(id) return false, raise nothing and leave the persisted
   raw value unchanged, so loadGallery() is the same before and after. *)
C11_NotFoundIsNoop ==
  (/\ last.op \in {"update", "remove"}
   /\ Len(last.note) <= MaxNoteLen
   /\ ~exists(Loaded(last.pre), last.id)) =>
    /\ last.result = "false"
    /\ last.writes = 0
    /\ storage = last.pre
    /\ Loaded(storage) = Loaded(last.pre)

\* an id not found in an array that holds a valid and an invalid element
C11_Witness ==
  /\ last.op \in {"update", "remove"}
  /\ last.result = "false"
  /\ Len(Persisted(storage)) = 2
  /\ Len(Loaded(storage)) = 1

(* C12: removeFromGallery(id) with a record of that id in the loaded
   collection and the write succeeding returns true, isInGallery(id) is then
   false, and the persisted collection is the previous one with that record
   deleted, the other records unchanged and in the same relative order. *)
C12_RemoveDeletes ==
  (/\ last.op = "remove"
   /\ FoundIn(last)
   /\ ~setItemThrows(last.mode)) =>
    LET before == loadGallery(last.pre, last.mode)
        kept == {i \in 1 .. Len(before) : before[i]["id"] # last.id}
        Rank(i) == Cardinality({j \in kept : j <= i})
    IN /\ last.result = "true"
       /\ isInGallery(storage, last.id, "ok").result = "false"
       /\ storage.kind = "array"
       /\ Cardinality(kept) = Len(before) - 1
       /\ Len(Persisted(storage)) = Cardinality(kept)
       /\ \A i \in kept : \A k \in SavedFields :
            PersistedField(storage, Rank(i), k) = before[i][k]

\* the first of two records was removed, the second is what remains
C12_Witness ==
  /\ last.op = "remove"
  /\ last.result = "true"
  /\ Len(Persisted(last.pre)) = 2
  /\ PersistedId(last.pre, 1) = last.id
  /\ Len(Persisted(storage)) = 1

(* C13: loadGallery() never raises and returns an empty collection whenever
   the persisted value is absent, cannot be parsed as JSON, parses to
   something that is no array, or the storage read itself throws. *)
C13_LoadDegrades ==
  (/\ last.op = "load"
   /\ \/ getItemThrows(last.mode)
      \/ last.pre.kind \in {"absent", "empty", "garbage", "nonarray"}) =>
    /\ last.result = "loaded"
    /\ last.returned = <<>>

\* a persisted JSON object that is a single valid record, not an array
C13_Witness ==
  /\ last.op = "load"
  /\ last.mode = "ok"
  /\ last.pre.kind = "nonarray"
  /\ SavedArtworkValid(last.pre.elems[1])
  /\ last.returned = <<>>

(* C14: when the persisted value is a JSON array, loadGallery() returns
   exactly the elements that pass saved-item validation, in their original
   relative order, and drops every element that fails without raising; an
   invalid element never causes a valid one to be dropped. *)
C14_LoadKeepsValid ==
  (/\ last.op = "load"
   /\ ~getItemThrows(last.mode)
   /\ last.pre.kind = "array") =>
    LET elems == last.pre.elems
        valid == {i \in 1 .. Len(elems) : SavedArtworkValid(elems[i])}
        Rank(i) == Cardinality({j \in valid : j <= i})
    IN /\ last.result = "loaded"
       /\ Len(last.returned) = Cardinality(valid)
       /\ \A i \in valid : \A k \in SavedFields :
            last.returned[Rank(i)][k] =
              IF k = "note" /\ "note" \notin DOMAIN elems[i].o
              THEN Str("") ELSE Get(elems[i].o, k)

\* an element without id in front of a valid one: only the valid one is returned
C14_Witness ==
  /\ last.op = "load"
  /\ last.mode = "ok"
  /\ Len(Persisted(last.pre)) = 2
  /\ last.pre.elems[1] = rawNoId
  /\ Len(last.returned) = 1
  /\ last.returned[1]["id"] = PersistedId(last.pre, 2)

(* C15: loadGallery() and isInGallery(id) never modify the persisted raw
   value: absent, unparsable, no array or an array with invalid elements, it
   is after the call what it was before. *)
C15_QueriesKeepRaw ==
  (last.op \in {"load", "isIn"}) =>
    /\ storage = last.pre
    /\ last.writes = 0

\* a query on an array with an invalid element, which is still persisted
C15_Witness ==
  /\ last.op \in {"load", "isIn"}
  /\ Len(Persisted(storage)) = 2
  /\ Len(Loaded(storage)) = 1
  /\ storage = last.pre

(* C16: whatever raw value is persisted before the call, every collection
   that addToGallery, updateNote or removeFromGallery writes to storage
   holds no record whose note is longer than 500 characters. *)
C16_WritesKeepNoteLimit ==
  (/\ last.op \in {"add", "update", "remove"}
   /\ last.result = "true"
   /\ last.writes = 1) =>
    \A i \in 1 .. Len(Persisted(storage)) :
      Len(PersistedField(storage, i, "note").s) <= MaxNoteLen

\* what does hold: a record the call itself notes or adds is within the limit
C16_OwnRecordKeepsNoteLimit ==
  (/\ last.op \in {"add", "update"}
   /\ last.result = "true") =>
    \A n \in StoredNotes(storage, last.id) :
      n.t = "string" /\ (Len(n.s) > MaxNoteLen => n \in StoredNotes(last.pre, last.id))

IsInteger(v) == v.t = "number" /\ v.s = ""

NoteOf(v) == Get(v.o, "note")

(* C17: SavedArtworkSchema.parse rejects any value whose note is longer than
   500 characters. *)
C17_SavedRejectsLongNote ==
  (/\ checked.schema = "SavedArtworkSchema"
   /\ checked.input.t = "object"
   /\ NoteOf(checked.input).t = "string"
   /\ Len(NoteOf(checked.input).s) > MaxNoteLen) =>
    ~checked.ok

\* what does hold: an absent note of an accepted value is defaulted to ""
C17_SavedDefaultsNote ==
  (/\ checked.schema = "SavedArtworkSchema"
   /\ checked.ok
   /\ NoteOf(checked.input).t = "undefined") =>
    checked.output["note"] = Str("")

(* C18: SavedArtworkSchema.parse accepts a value that has an integer id, a
   string title and an artist_title that is a string or null, every other
   field absent, and yields a record with note "". *)
C18_SavedAcceptsMinimal ==
  (/\ checked.schema = "SavedArtworkSchema"
   /\ checked.input.t = "object"
   /\ IsInteger(Get(checked.input.o, "id"))
   /\ Get(checked.input.o, "title").t = "string"
   /\ Get(checked.input.o, "artist_title").t \in {"string", "null"}
   /\ \A k \in SavedFields \ {"id", "title", "artist_title"} :
        Get(checked.input.o, k).t = "undefined") =>
    /\ checked.ok
    /\ checked.output["note"] = Str("")

\* what does hold: a value missing id, title or artist_title is rejected
C18_SavedRejectsMissing ==
  (/\ checked.schema = "SavedArtworkSchema"
   /\ \/ checked.input.t # "object"
      \/ \E k \in {"id", "title", "artist_title"} :
           Get(checked.input.o, k).t = "undefined") =>
    ~checked.ok

(* C19: ArtworkSchema.parse and SavedArtworkSchema.parse reject a value
   whose id is missing or is a number that is not an integer. *)
C19_RejectNonIntegerId ==
  (/\ checked.schema \in {"ArtworkSchema", "SavedArtworkSchema"}
   /\ checked.input.t = "object"
   /\ ~IsInteger(Get(checked.input.o, "id"))) =>
    ~checked.ok

\* what does hold: an id that is missing or is no number is rejected
C19_RejectNonNumberId ==
  (/\ checked.schema \in {"ArtworkSchema", "SavedArtworkSchema"}
   /\ checked.input.t = "object"
   /\ Get(checked.input.o, "id").t # "number") =>
    ~checked.ok

(* C20: ArtworkSchema.parse on a value with a valid id succeeds and fills the
   default title when title is absent or null, the default artist name when
   artist_title is absent or null, yields a null image_id when image_id is
   absent or null, and passes the optional descriptive fields through. *)
C20_ArtworkDefaults ==
  (/\ checked.schema = "ArtworkSchema"
   /\ checked.input.t = "object"
   /\ IsInteger(Get(checked.input.o, "id"))
   /\ \A k \in {"title", "artist_title", "image_id"} :
        Get(checked.input.o, k).t \in {"string", "null", "undefined"}
   /\ \A k \in OptionalFields :
        Get(checked.input.o, k).t \in {"string", "undefined"}) =>
    LET in(k) == Get(checked.input.o, k)
        filled(k, d) == IF in(k).t = "string" THEN in(k) ELSE d
    IN /\ checked.ok
       /\ checked.output["id"] = in("id")
       /\ checked.output["title"] = filled("title", Str("Unbekannter Titel"))
       /\ checked.output["artist_title"] =
            filled("artist_title", Str("Unbekannter Künstler"))
       /\ checked.output["image_id"] = filled("image_id", Null)
       /\ \A k \in OptionalFields : checked.output[k] = in(k)

\* what does hold: the defaults are filled for the fields that are absent
C20_ArtworkDefaultsWhenAbsent ==
  (/\ checked.schema = "ArtworkSchema"
   /\ checked.input.t = "object"
   /\ IsInteger(Get(checked.input.o, "id"))
   /\ Get(checked.input.o, "title").t \in {"string", "undefined"}
   /\ Get(checked.input.o, "artist_title").t \in {"string", "undefined"}
   /\ Get(checked.input.o, "image_id").t \in {"string", "null", "undefined"}
   /\ \A k \in OptionalFields :
        Get(checked.input.o, k).t \in {"string", "undefined"}) =>
    LET in(k) == Get(checked.input.o, k)
        filled(k, d) == IF in(k).t = "string" THEN in(k) ELSE d
    IN /\ checked.ok
       /\ checked.output["title"] = filled("title", Str("Unbekannter Titel"))
       /\ checked.output["artist_title"] =
            filled("artist_title", Str("Unbekannter Künstler"))
       /\ checked.output["image_id"] = filled("image_id", Null)
       /\ \A k \in OptionalFields : checked.output[k] = in(k)

(* C21: when the storage write fails during addToGallery, updateNote or
   removeFromGallery, the call raises an error to its caller (it returns
   neither true nor false) and the persisted raw value is the same as before
   the call. *)
C21_WriteFailureRaises ==
  (/\ last.op \in {"add", "update", "remove"}
   /\ last.writes = 1
   /\ setItemThrows(last.mode)) =>
    /\ last.result = "raised"
    /\ storage = last.pre

\* a note update of a saved record that hits the quota
C21_Witness ==
  /\ last.op = "update"
  /\ last.mode = "quota"
  /\ FoundIn(last)
  /\ last.writes = 1
  /\ last.result = "raised"
  /\ Len(Persisted(storage)) >= 1

(* C22: for every persisted state and every id, isInGallery(id) returns true
   exactly when loadGallery() on the same persisted state returns a
   collection with a record of that id; it returns false and never raises
   when the persisted value is absent or corrupt. *)
C22_IsInGalleryIsMembership ==
  (last.op = "isIn") =>
    LET gallery == loadGallery(last.pre, last.mode)
    IN /\ last.result \in {"true", "false"}
       /\ last.result = "true" <=>
            \E i \in 1 .. Len(gallery) : gallery[i]["id"] = last.id
       /\ last.pre.kind # "array" => last.result = "false"

\* the id asked for is that of a persisted element which validation drops
C22_Witness ==
  /\ last.op = "isIn"
  /\ last.mode = "ok"
  /\ last.result = "false"
  /\ \E i \in 1 .. Len(Persisted(last.pre)) :
       /\ Persisted(last.pre)[i].t = "object"
       /\ Get(Persisted(last.pre)[i].o, "id") = last.id

(* C23: clearGallery() removes the persisted collection whatever it was
   (valid, corrupt or absent): afterwards loadGallery() returns [] and
   isInGallery(id) is false for every id; on an absent value it raises
   nothing and leaves the storage absent. *)
C23_ClearRemoves ==
  (/\ last.op = "clear"
   /\ ~removeItemThrows(last.mode)) =>
    /\ last.result = "void"
    /\ storage = Absent
    /\ loadGallery(storage, "ok") = <<>>
    /\ \A i \in Ids : isInGallery(storage, Num(i), "ok").result = "false"

\* the second of two clearGallery calls in succession
C23_Witness ==
  /\ last.op = "clear"
  /\ last.previous = "void"
  /\ last.pre = Absent
  /\ last.result = "void"
  /\ storage = Absent

(* C25: every call of addToGallery, updateNote or removeFromGallery performs
   at most one storage write; that write replaces the whole collection under
   the one key and happens only after the load, the modification and the
   validation of the call; a call that returns false, or raises before the
   write, performs no write at all. *)
C25_ReadModifyValidateWrite ==
  (last.op \in {"add", "update", "remove"}) =>
    /\ last.writes <= 1
    /\ last.writes = 1 => last.reads = 1
    /\ last.result = "false" => last.writes = 0 /\ storage = last.pre
    /\ (last.result = "raised" /\ ~setItemThrows(last.mode)) =>
         last.writes = 0 /\ storage = last.pre
    /\ last.result = "true" =>
         LET before == loadGallery(last.pre, last.mode)
             rest == {i \in 1 .. Len(before) : before[i]["id"] # last.id}
         IN /\ last.writes = 1
            /\ storage.kind = "array"
            /\ \A i \in 1 .. Len(Persisted(storage)) :
                 SavedArtworkValid(Persisted(storage)[i])
            /\ Len(Persisted(storage)) =
                 CASE last.op = "add" -> Len(before) + 1
                   [] last.op = "update" -> Len(before)
                   [] last.op = "remove" -> Cardinality(rest)
            /\ last.op \in {"add", "update"} =>
                 \A i \in rest : \A k \in SavedFields :
                   PersistedField(storage, i, k) = before[i][k]

\* an add whose record fails validation: it raises and nothing is written
C25_Witness ==
  /\ last.op = "add"
  /\ last.mode = "ok"
  /\ ~SavedArtworkValid(Obj(savedArtworkOf(last.art)))
  /\ last.result = "raised"
  /\ last.reads = 1
  /\ last.writes = 0
  /\ Len(Persisted(storage)) >= 1

(* C28: every collection the store itself persists is read back in full:
   right after a successful addToGallery, updateNote or removeFromGallery,
   loadGallery() returns a collection of the same length and with the same
   records as the one just written, records with absent optional fields
   included. *)
C28_WrittenIsReadBack ==
  (/\ last.op \in {"add", "update", "remove"}
   /\ last.result = "true") =>
    /\ storage.kind = "array"
    /\ Len(loadGallery(storage, "ok")) = Len(Persisted(storage))
    /\ \A i \in 1 .. Len(Persisted(storage)) : \A k \in SavedFields :
         loadGallery(storage, "ok")[i][k] = PersistedField(storage, i, k)

\* two records written, one of them without any optional field
C28_Witness ==
  /\ last.op \in {"add", "update", "remove"}
  /\ last.result = "true"
  /\ Len(Persisted(storage)) = 2
  /\ Len(loadGallery(storage, "ok")) = 2
  /\ \E i \in 1 .. 2 : \A k \in OptionalFields :
       PersistedField(storage, i, k) = Undefined

(* C29: after any successful write by addToGallery, updateNote or
   removeFromGallery every element of the persisted array passes saved-item
   validation: the elements that were invalid in the raw value before the
   call are gone, and when the earlier raw value was unparsable or no array
   the written collection is built from the empty collection. *)
C29_WriteDropsInvalid ==
  (/\ last.op \in {"add", "update", "remove"}
   /\ last.result = "true") =>
    LET elems == Persisted(last.pre)
        valid == {i \in 1 .. Len(elems) : SavedArtworkValid(elems[i])}
    IN /\ storage.kind = "array"
       /\ \A i \in 1 .. Len(Persisted(storage)) :
            SavedArtworkValid(Persisted(storage)[i])
       /\ Len(Persisted(storage)) <= Cardinality(valid) + 1
       /\ last.pre.kind # "array" =>
            /\ last.op = "add"
            /\ Len(Persisted(storage)) = 1
            /\ PersistedId(storage, 1) = last.id

\* an add on an array with an invalid element, which the write removes
C29_Witness ==
  /\ last.op = "add"
  /\ last.result = "true"
  /\ Len(Persisted(last.pre)) = 2
  /\ \E i \in 1 .. 2 : ~SavedArtworkValid(Persisted(last.pre)[i])
  /\ Len(Persisted(storage)) = 2

(* C24: starting from empty storage, after any sequence of addToGallery,
   updateNote and removeFromGallery calls, the records loadGallery() returns
   appear in the order in which their most recent successful addToGallery
   calls happened; updateNote and removeFromGallery never reorder the
   records that remain. *)
C24_InsertionOrder ==
  LET gallery == loadGallery(storage, "ok")
      LastAdd(id) == CHOOSE i \in 1 .. Len(added) :
                       /\ added[i] = id
                       /\ \A j \in (i + 1) .. Len(added) : added[j] # id
  IN /\ \A i \in 1 .. Len(gallery) :
          \E j \in 1 .. Len(added) : added[j] = gallery[i]["id"]
     /\ \A i, j \in 1 .. Len(gallery) :
          i < j => LastAdd(gallery[i]["id"]) < LastAdd(gallery[j]["id"])

\* a record added, removed and added again stands behind the one added in
\* between, whose note was updated since
C24_Witness ==
  /\ added = <<Num(1), Num(2), Num(1)>>
  /\ last.op = "update"
  /\ last.result = "true"
  /\ Len(Persisted(storage)) = 2
  /\ PersistedId(storage, 1) = Num(2)
  /\ PersistedId(storage, 2) = Num(1)
  /\ PersistedField(storage, 1, "note") = Str(Note500)

(* C26: when two contexts share the key and the reads and writes of their
   calls interleave, the persisted value after a write is exactly the whole
   collection that call computed from the value it had read (last writer
   wins): nothing is detected or merged, so the change of the earlier
   writer can be absent from it. *)
C26_LastWriterWins ==
  [][\A c \in Tabs :
       (tabs[c].pc = "write" /\ tabs'[c].pc = "idle") =>
         LET call == tabs[c]
             before == loadGallery(call.pre, "ok")
         IN storage' = JSONstringify(
              CASE call.op = "add" ->
                     Append(before, SavedArtworkParsed(Obj(savedArtworkOf(call.art))))
                [] call.op = "update" ->
                     [before EXCEPT ![findIndex(before, call.id)] =
                        withNote(before[findIndex(before, call.id)], call.note)]
                [] call.op = "remove" -> without(before, call.id))]_vars

\* both contexts added a record with success, and the record of the one that
\* wrote first is gone
C26_Witness ==
  \E c, d \in Tabs :
    /\ c # d
    /\ tabs[c].pc = "idle" /\ tabs[d].pc = "idle"
    /\ tabs[c].op = "add" /\ tabs[d].op = "add"
    /\ tabs[c].result = "true" /\ tabs[d].result = "true"
    /\ tabs[c].id # tabs[d].id
    /\ tabs[d].stale
    /\ exists(loadGallery(storage, "ok"), tabs[d].id)
    /\ ~exists(loadGallery(storage, "ok"), tabs[c].id)

(* C27: with two contexts running addToGallery, updateNote and
   removeFromGallery concurrently, interleaved at the individual storage
   reads and writes, and starting from a duplicate-free persisted
   collection, the persisted collection never holds two records with the
   same id. *)
C27_UniqueIdsConcurrently ==
  \A i, j \in 1 .. Len(Persisted(storage)) :
    PersistedId(storage, i) = PersistedId(storage, j) => i = j

\* two records persisted by a write that replaced a value its call had not read
C27_Witness ==
  \E c \in Tabs :
    /\ tabs[c].stale
    /\ tabs[c].result = "true"
    /\ Len(Persisted(storage)) = 2

(* C30: the NoteEditor invokes its onSave callback, and with it the store's
   updateNote, only with a note that passes NoteSchema, that is of at most
   500 characters; for a longer note handleSave sets a validation error and
   never calls onSave, so updateNote is never invoked from the UI with an
   over-length note. *)
C30_EditorSavesValidNotesOnly ==
  /\ last.op = "update" => Len(last.note) <= MaxNoteLen
  /\ editor.called =>
       /\ Len(editor.note) <= MaxNoteLen
       /\ last.op = "update" /\ last.id = editor.id /\ last.note = editor.note
  /\ (editor.event = "save" /\ Len(editor.note) > MaxNoteLen) =>
       /\ editor.validationError
       /\ ~editor.called
       /\ editor.open

\* the editor was opened on a persisted record whose note has 501 characters,
\* and the save was refused
C30_Witness ==
  /\ editor.event = "save"
  /\ editor.validationError
  /\ ~editor.called
  /\ last.op = "none"
  /\ \E i \in 1 .. Len(editor.gallery) :
       /\ editor.gallery[i]["id"] = editor.id
       /\ editor.gallery[i]["note"].s = editor.note
       /\ Len(editor.note) > MaxNoteLen

(* C31: in the Gallery view every save attempt from the note editor ends in
   one of two visible outcomes: the note is persisted and the editor is
   closed, or an error message is set; also when the edited record is no
   longer in the persisted collection at the time updateNote runs. *)
C31_SaveEndsVisibly ==
  (editor.event = "save") =>
    \/ editor.called /\ last.result = "true" /\ ~editor.open
    \/ editor.error # Null
    \/ editor.validationError

\* what does hold: the two outcomes, unless updateNote returns false
C31_SaveEndsVisiblyUnlessFalse ==
  (/\ editor.event = "save"
   /\ editor.called => last.result # "false") =>
    \/ editor.called /\ last.result = "true" /\ ~editor.open
    \/ editor.error # Null
    \/ editor.validationError

(* C32: in the Gallery view within a single context, after every handler:
   the displayed gallery list equals loadGallery() of the persisted state
   after each successful remove or note save, and whenever the note editor
   is open the artwork it edits is in the displayed list (removing the
   artwork being edited closes the editor). *)
C32_GalleryViewInSync ==
  /\ (/\ \/ editor.event = "save" /\ editor.called
         \/ editor.event = "remove"
      /\ last.result = "true") =>
       editor.gallery = loadGallery(storage, "ok")
  /\ editor.open =>
       \E i \in 1 .. Len(editor.gallery) : editor.gallery[i]["id"] = editor.id

\* the artwork that was being edited is removed: the editor is closed, the
\* remaining record is displayed
C32_Witness ==
  /\ editor.event = "remove"
  /\ last.result = "true"
  /\ last.id = editor.id
  /\ ~editor.open
  /\ Len(editor.gallery) = 1
  /\ editor.gallery = loadGallery(storage, "ok")

(* C33: in the SearchInterface within a single context, whenever no search
   is loading and the effect on searchResults has run, for every displayed
   result r the add button is disabled (r.id is in galleryIds) exactly when
   a record with r.id is in the persisted gallery; every add, successful or
   duplicate, and every new search or page change preserves this. *)
C33_AddButtonsMatchGallery ==
  (~search.isLoading /\ ~search.effect) =>
    \A i \in 1 .. Len(search.searchResults) :
      (search.searchResults[i]["id"] \in search.galleryIds)
        <=> exists(loadGallery(storage, "ok"), search.searchResults[i]["id"])

\* the second result of a page of two is added to a gallery that held the
\* first: both buttons are disabled, both records are persisted
C33_Witness ==
  /\ search.event = "add"
  /\ last.result = "true"
  /\ ~search.isLoading
  /\ Len(search.searchResults) = 2
  /\ \A i \in 1 .. 2 :
       /\ search.searchResults[i]["id"] \in search.galleryIds
       /\ exists(loadGallery(storage, "ok"), search.searchResults[i]["id"])

(* C34: in the SearchInterface, whenever no search is loading, the displayed
   searchResults are the results of page currentPage of lastSearchQuery;
   also after a page change or a new search whose request fails. *)
C34_ResultsMatchPage ==
  ~search.isLoading =>
    search.searchResults = ResultsOf(search.lastSearchQuery, search.currentPage)

\* what does hold: the results are those of the page when the request resolved
C34_ResultsMatchPageWhenFulfilled ==
  (~search.isLoading /\ search.event = "fulfilled") =>
    search.searchResults = ResultsOf(search.lastSearchQuery, search.currentPage)

(* C35: every performSearch with a non-blank query sets isLoading before the
   request, and isLoading returns to false once the request resolves or
   rejects; a rejected request leaves an error message set and the view not
   loading. *)
C35_LoadingEnds ==
  /\ [](search.event \in {"search", "page"} =>
          search.isLoading /\ search.requests # <<>>)
  /\ (search.isLoading ~> ~search.isLoading)
  /\ [](search.event = "rejected" => search.error # Null /\ ~search.isLoading)

\* a request was rejected: the message is set and the view is not loading
C35_Witness ==
  /\ search.event = "rejected"
  /\ search.error # Null
  /\ ~search.isLoading
  /\ search.requests = <<>>

(* C36: at most one search request is in flight at any time: while isLoading
   is true neither the input, the submit button nor the pagination buttons
   start another performSearch, so the request in flight is the one of the
   latest query and page, and no earlier response overwrites a later one. *)
C36_OneRequestInFlight ==
  /\ Len(search.requests) <= 1
  /\ search.isLoading <=> search.requests # <<>>
  /\ search.requests # <<>> =>
       /\ search.requests[1].url.q = search.lastSearchQuery
       /\ search.requests[1].page = search.currentPage

\* a page change is in flight over displayed results
C36_Witness ==
  /\ search.event = "page"
  /\ search.isLoading
  /\ Len(search.requests) = 1
  /\ Len(search.searchResults) > 0

\* a query of white space only, told without trim
IsBlank(q) == \A i \in 1 .. Len(q) : q[i] \in Whitespace

(* C37: a blank or whitespace-only query never issues a network request:
   performSearch sets an error message and leaves isLoading, searchResults,
   currentPage, lastSearchQuery and the requests in flight unchanged, and
   searchArtworks returns an empty result with total 0 without calling
   fetch. *)
C37_BlankQueryNoRequest ==
  [][/\ (search'.event = "performSearch" /\ IsBlank(search'.query)) =>
          /\ search'.error = Str("Bitte geben Sie einen Suchbegriff ein")
          /\ search'.isLoading = search.isLoading
          /\ search'.searchResults = search.searchResults
          /\ search'.currentPage = search.currentPage
          /\ search'.lastSearchQuery = search.lastSearchQuery
          /\ search'.requests = search.requests
     /\ (search'.event = "searchArtworks" /\ IsBlank(search'.query)) =>
          /\ ~search'.api.fetch
          /\ search'.api.data = <<>>
          /\ search'.api.total = 0
          /\ search'.requests = search.requests]_vars

\* performSearch was called with white space over displayed results: the
\* message is set, the results of the last search are still shown
C37_Witness ==
  /\ search.event = "performSearch"
  /\ IsBlank(search.query)
  /\ search.query # <<>>
  /\ search.error = Str("Bitte geben Sie einen Suchbegriff ein")
  /\ ~search.isLoading
  /\ search.requests = <<>>
  /\ Len(search.searchResults) > 0
  /\ search.lastSearchQuery = Monet

====
